---- MODULE Spec2Model ----
(***************************************************************************)
(* The suggestion service of the dashboard: api/analyzeStations.ts.        *)
(* One Node process runs any number of handler invocations; each runs      *)
(* atomically between its awaits (fetch, text).  Module-level state is the *)
(* cache and the apiBusy flag.  Time is counted in minutes.                *)
(***************************************************************************)
EXTENDS Integers, Sequences, FiniteSets, TLC

\* ---- bounds of the model
NumProcs == 2
MaxStations == 1
MaxNow == 2
MaxPureStations == 2

\* ---- program constants
TTL == 2
TempThreshold == 30
EmissionsThreshold == 150
NoiseThreshold == 85

Procs == 1..NumProcs

VARIABLES cache, apiBusy, apiKey, now, inv, last, pStations, pProblematic, pMock, pPc

vars == <<cache, apiBusy, apiKey, now, inv, last, pStations, pProblematic, pMock, pPc>>
handlerVars == <<cache, apiBusy, apiKey, now, inv, last>>
pureVars == <<pStations, pProblematic, pMock, pPc>>

\* ---- JSON values: the bodies of responses and the data of the cache
Arr(items) == [type |-> "array", items |-> items, text |-> ""]
Obj(text) == [type |-> "object", items |-> <<>>, text |-> text]

\* ---- stations: a reading is a function from the fields it defines to numbers
Reading(t, e, n) == [temperature |-> t, emissions |-> e, noise |-> n]
Station(name, area, hasReading, reading) ==
    [name |-> name, area |-> area, hasReading |-> hasReading, latestReading |-> reading]

NoFields == [k \in {} |-> 0]

\* s.latestReading.<k>! > th : undefined > th is false
Exceeds(r, k, th) == k \in DOMAIN r /\ r[k] > th

IsProblematicInclusive(s) ==
    /\ s.hasReading
    /\ \/ Exceeds(s.latestReading, "temperature", TempThreshold - 1)
       \/ Exceeds(s.latestReading, "emissions", EmissionsThreshold)
       \/ Exceeds(s.latestReading, "noise", NoiseThreshold)

IsProblematic(s) ==
    /\ s.hasReading
    /\ \/ Exceeds(s.latestReading, "temperature", TempThreshold)
       \/ Exceeds(s.latestReading, "emissions", EmissionsThreshold)
       \/ Exceeds(s.latestReading, "noise", NoiseThreshold)

RECURSIVE problematicStations(_)
problematicStations(stations) ==
    IF stations = <<>> THEN <<>>
    ELSE (IF IsProblematic(Head(stations)) THEN <<Head(stations)>> ELSE <<>>)
            \o problematicStations(Tail(stations))

Suggestion(s, parameter, value, threshold, text) ==
    [stationName |-> s.name, area |-> s.area, parameter |-> parameter,
     value |-> value, threshold |-> threshold, suggestion |-> text]

MockOfNoiseFirst(s) ==
    LET r == IF s.hasReading THEN s.latestReading ELSE NoFields IN
    IF Exceeds(r, "noise", NoiseThreshold)
    THEN <<Suggestion(s, "Noise", r["noise"], NoiseThreshold,
                      "Install noise barriers or schedule loud activities off-peak.")>>
    ELSE IF Exceeds(r, "temperature", TempThreshold)
    THEN <<Suggestion(s, "Temperature", r["temperature"], TempThreshold,
                      "Deploy cooling systems or improve ventilation.")>>
    ELSE IF Exceeds(r, "emissions", EmissionsThreshold)
    THEN <<Suggestion(s, "PM 2.5 Emissions", r["emissions"], EmissionsThreshold,
                      "Implement carbon capture or reduce operational hours.")>>
    ELSE <<>>

\* the callback of .map at lines 81-110: <<record>> or <<>> for null
MockOf(s) ==
    LET r == IF s.hasReading THEN s.latestReading ELSE NoFields IN
    IF Exceeds(r, "temperature", TempThreshold)
    THEN <<Suggestion(s, "Temperature", r["temperature"], TempThreshold,
                      "Deploy cooling systems or improve ventilation.")>>
    ELSE IF Exceeds(r, "emissions", EmissionsThreshold)
    THEN <<Suggestion(s, "PM 2.5 Emissions", r["emissions"], EmissionsThreshold,
                      "Implement carbon capture or reduce operational hours.")>>
    ELSE IF Exceeds(r, "noise", NoiseThreshold)
    THEN <<Suggestion(s, "Noise", r["noise"], NoiseThreshold,
                      "Install noise barriers or schedule loud activities off-peak.")>>
    ELSE <<>>

RECURSIVE mockSuggestions(_)
mockSuggestions(ps) ==
    IF ps = <<>> THEN <<>>
    ELSE MockOf(Head(ps)) \o mockSuggestions(Tail(ps))

\* ---- provider payloads: texts are sequences of tokens; FENCE stands for a
\* code-block delimiter (three backquotes)
AiSuggestion ==
    [stationName |-> "S1", area |-> "A", parameter |-> "Noise", value |-> 90,
     threshold |-> NoiseThreshold, suggestion |-> "Plant a green buffer."]
Envelope == [choices |-> "message"]

ObjectTokens == {"{AI}", "{ENV}"}
ObjectOf(tok) == IF tok = "{AI}" THEN AiSuggestion ELSE Envelope

Failed == [ok |-> FALSE, value |-> Obj("")]
Parsed(v) == [ok |-> TRUE, value |-> v]

\* the members of an array after "[": object ("," object)*, and with
\* trailing = TRUE one more "," before the end (JSON5)
RECURSIVE ParseMembers(_, _)
ParseMembers(toks, trailing) ==
    IF toks = <<>> THEN Failed
    ELSE IF Head(toks) \notin ObjectTokens THEN Failed
    ELSE IF Len(toks) = 1 THEN Parsed(<<ObjectOf(Head(toks))>>)
    ELSE IF toks[2] # "," THEN Failed
    ELSE IF Len(toks) = 2
         THEN (IF trailing THEN Parsed(<<ObjectOf(Head(toks))>>) ELSE Failed)
    ELSE LET rest == ParseMembers(SubSeq(toks, 3, Len(toks)), trailing) IN
         IF rest.ok THEN Parsed(<<ObjectOf(Head(toks))>> \o rest.value) ELSE Failed

ParseValue(text, trailing) ==
    IF Len(text) = 1 /\ text[1] \in ObjectTokens
    THEN Parsed(IF text[1] = "{ENV}" THEN Obj("choices") ELSE Obj("suggestion"))
    ELSE IF Len(text) >= 2 /\ text[1] = "[" /\ text[Len(text)] = "]"
    THEN (IF Len(text) = 2 THEN Parsed(Arr(<<>>))
          ELSE LET m == ParseMembers(SubSeq(text, 2, Len(text) - 1), trailing) IN
               IF m.ok THEN Parsed(Arr(m.value)) ELSE Failed)
    ELSE Failed

JSONparse(text) == ParseValue(text, FALSE)
JSON5parse(text) == ParseValue(text, TRUE)

SafeParseEmpty(rawText, mock) ==
    IF JSONparse(rawText).ok
    THEN [suggestions |-> JSONparse(rawText).value, stage |-> "strict"]
    ELSE IF JSON5parse(rawText).ok
    THEN [suggestions |-> JSON5parse(rawText).value, stage |-> "relaxed"]
    ELSE [suggestions |-> Arr(<<>>), stage |-> "mock"]

\* lines 161-171: the parsed value and the stage that produced it
SafeParse(rawText, mock) ==
    IF JSONparse(rawText).ok
    THEN [suggestions |-> JSONparse(rawText).value, stage |-> "strict"]
    ELSE IF JSON5parse(rawText).ok
    THEN [suggestions |-> JSON5parse(rawText).value, stage |-> "relaxed"]
    ELSE [suggestions |-> Arr(mock), stage |-> "mock"]

Payloads ==
    { <<"[", "{AI}", "]">>,
      <<"[", "{AI}", ",", "]">>,
      <<"FENCE", "[", "{AI}", "]", "FENCE">>,
      <<"{ENV}">>,
      <<"not", "json">> }

Statuses == {200, 429, 500}
Ok(status) == status >= 200 /\ status <= 299

\* ---- requests
SeqsUpTo(S, n) == UNION {[1..k -> S] : k \in 0..n}

StationPool ==
    { Station("S1", "A", TRUE, Reading(35, 100, 90)),
      Station("S2", "B", TRUE, Reading(30, 150, 85)),
      Station("S3", "A", TRUE, Reading(25, 151, 50)) }

Req(method, body, stations) == [method |-> method, body |-> body, stations |-> stations]
NoReq == Req("", "undefined", <<>>)

\* body: "undefined" (no body), "invalid" (stations missing or no array), "array"
Requests ==
    {Req("GET", "undefined", <<>>), Req("POST", "undefined", <<>>),
     Req("POST", "invalid", <<>>)}
    \cup {Req("POST", "array", st) : st \in SeqsUpTo(StationPool, MaxStations)}

\* ---- module state
NullCache == [present |-> FALSE, time |-> 0, data |-> Arr(<<>>)]
CacheOf(time, data) == [present |-> TRUE, time |-> time, data |-> data]

CacheFreshShort(c, t) == c.present /\ t - c.time < TTL - 1

CacheFreshForever(c, t) == c.present

\* line 32
CacheFresh(c, t) == c.present /\ t - c.time < TTL

\* line 114
KeyConfiguredAlways(key) == TRUE

KeyConfigured(key) == key

\* line 120
LockHeldNever(busy) == FALSE

LockHeld(busy) == busy

\* ---- what an invocation answers: the line that returned, the status and the
\* body
Reply(path, status, body) == [path |-> path, status |-> status, body |-> body]
Await == Reply(129, 0, Arr(<<>>))

ContendedRefuses(c, mock) == Reply(123, 503, Obj("API busy"))

\* lines 120-124
Contended(c, mock) ==
    IF c.present THEN Reply(122, 200, c.data) ELSE Reply(123, 200, Arr(mock))

\* lines 26-126: the handler up to its first await
Sync(req, c, busy, key, t) ==
    IF req.method # "POST" THEN Reply(26, 405, Obj("Method not allowed"))
    ELSE IF req.body = "undefined" THEN Reply(28, 500, Obj("TypeError"))
    ELSE IF req.body # "array" THEN Reply(29, 400, Obj("stations array is required"))
    ELSE IF CacheFresh(c, t) THEN Reply(33, 200, c.data)
    ELSE LET ps == problematicStations(req.stations)
             mock == mockSuggestions(ps) IN
         IF Len(ps) = 0 THEN Reply(44, 200, Arr(<<>>))
         ELSE IF ~KeyConfigured(key) THEN Reply(116, 200, Arr(mock))
         ELSE IF LockHeld(busy) THEN Contended(c, mock)
         ELSE Await

Idle == [pc |-> "idle", req |-> NoReq, mock |-> <<>>, status |-> 0, fetches |-> 0]

\* what the provider did for an invocation: nothing asked ("none"), fetch
\* rejected ("fetchError"), text() rejected ("textError") or a status and, when
\* the status is a success, the text that went to the parsers
Upstream(kind, status, rawText) == [kind |-> kind, status |-> status, rawText |-> rawText]
NoUpstream == Upstream("none", 0, <<>>)

\* the response last sent, with its request, the parse stage that produced it
\* (161-171), the provider requests the invocation made and what the provider
\* did
Response(req, reply, stage, fetches, upstream) ==
    [req |-> req, path |-> reply.path, status |-> reply.status,
     body |-> reply.body, stage |-> stage, fetches |-> fetches, upstream |-> upstream]
NoResponse == Response(NoReq, Reply(0, 0, Arr(<<>>)), "none", 0, NoUpstream)

InitHandler ==
    /\ cache = NullCache
    /\ apiBusy = FALSE
    /\ apiKey \in BOOLEAN
    /\ now = 0
    /\ inv = [p \in Procs |-> Idle]
    /\ last = NoResponse

HandlerReleasesOnReturn(p, req) ==
    /\ inv[p].pc = "idle"
    /\ \A q \in Procs : q < p => inv[q].pc # "idle"
    /\ LET r == Sync(req, cache, apiBusy, apiKey, now) IN
       IF r.path = 129
       THEN /\ apiBusy' = TRUE
            /\ inv' = [inv EXCEPT ![p] =
                          [pc |-> "fetch", req |-> req,
                           mock |-> mockSuggestions(problematicStations(req.stations)),
                           status |-> 0, fetches |-> 1]]
            /\ UNCHANGED last
       ELSE /\ last' = Response(req, r, "none", 0, NoUpstream)
            /\ apiBusy' = FALSE
            /\ UNCHANGED inv
    /\ UNCHANGED <<cache, apiKey, now>>
    /\ UNCHANGED pureVars

\* a request arrives and the handler runs to its first await or to a return;
\* the invocation contexts are interchangeable, a new invocation takes the
\* first free one
Handler(p, req) ==
    /\ inv[p].pc = "idle"
    /\ \A q \in Procs : q < p => inv[q].pc # "idle"
    /\ LET r == Sync(req, cache, apiBusy, apiKey, now) IN
       IF r.path = 129
       THEN /\ apiBusy' = TRUE
            /\ inv' = [inv EXCEPT ![p] =
                          [pc |-> "fetch", req |-> req,
                           mock |-> mockSuggestions(problematicStations(req.stations)),
                           status |-> 0, fetches |-> 1]]
            /\ UNCHANGED last
       ELSE /\ last' = Response(req, r, "none", 0, NoUpstream)
            /\ UNCHANGED <<apiBusy, inv>>
    /\ UNCHANGED <<cache, apiKey, now>>
    /\ UNCHANGED pureVars

\* line 129: fetch resolves with a status
FetchResolve(p, status) ==
    /\ inv[p].pc = "fetch"
    /\ inv' = [inv EXCEPT ![p].pc = "text", ![p].status = status]
    /\ UNCHANGED <<cache, apiBusy, apiKey, now, last>>
    /\ UNCHANGED pureVars

CatchKeepsLock(p, kind) ==
    /\ last' = Response(inv[p].req, Reply(179, 200, Arr(inv[p].mock)),
                        "none", inv[p].fetches, Upstream(kind, 0, <<>>))
    /\ inv' = [inv EXCEPT ![p] = Idle]
    /\ UNCHANGED <<cache, apiBusy, apiKey, now>>
    /\ UNCHANGED pureVars

\* lines 177-182: catch and finally
Catch(p, kind) ==
    /\ last' = Response(inv[p].req, Reply(179, 200, Arr(inv[p].mock)),
                        "none", inv[p].fetches, Upstream(kind, 0, <<>>))
    /\ apiBusy' = FALSE
    /\ inv' = [inv EXCEPT ![p] = Idle]
    /\ UNCHANGED <<cache, apiKey, now>>
    /\ UNCHANGED pureVars

\* line 129: fetch rejects (transport error)
FetchReject(p) ==
    /\ inv[p].pc = "fetch"
    /\ Catch(p, "fetchError")

\* line 149: reading the body fails
TextReject(p) ==
    /\ inv[p].pc = "text"
    /\ Catch(p, "textError")

TextResolveRetries(p, rawText) ==
    /\ inv[p].pc = "text"
    /\ IF ~Ok(inv[p].status)
       THEN /\ inv' = [inv EXCEPT ![p].pc = "fetch", ![p].status = 0,
                                  ![p].fetches = IF @ < 2 THEN @ + 1 ELSE @]
            /\ UNCHANGED <<cache, apiBusy, last>>
       ELSE LET parsed == SafeParse(rawText, inv[p].mock) IN
            /\ cache' = CacheOf(now, parsed.suggestions)
            /\ last' = Response(inv[p].req,
                                Reply(176, 200, parsed.suggestions), parsed.stage,
                                inv[p].fetches, Upstream("response", inv[p].status, rawText))
            /\ apiBusy' = FALSE
            /\ inv' = [inv EXCEPT ![p] = Idle]
    /\ UNCHANGED <<apiKey, now>>
    /\ UNCHANGED pureVars

\* lines 149-182: the body is read
TextResolve(p, rawText) ==
    /\ inv[p].pc = "text"
    /\ IF ~Ok(inv[p].status)
       THEN /\ last' = Response(inv[p].req,
                                Reply(157, 200, Arr(inv[p].mock)), "none", inv[p].fetches,
                                Upstream("response", inv[p].status, <<>>))
            /\ UNCHANGED cache
       ELSE LET parsed == SafeParse(rawText, inv[p].mock) IN
            /\ cache' = CacheOf(now, parsed.suggestions)
            /\ last' = Response(inv[p].req,
                                Reply(176, 200, parsed.suggestions), parsed.stage,
                                inv[p].fetches, Upstream("response", inv[p].status, rawText))
    /\ apiBusy' = FALSE
    /\ inv' = [inv EXCEPT ![p] = Idle]
    /\ UNCHANGED <<apiKey, now>>
    /\ UNCHANGED pureVars

\* Date.now() advances
Tick ==
    /\ now < MaxNow
    /\ now' = now + 1
    /\ UNCHANGED <<cache, apiBusy, apiKey, inv, last>>
    /\ UNCHANGED pureVars

Next ==
    \/ \E p \in Procs, req \in Requests : Handler(p, req)
    \/ \E p \in Procs, status \in Statuses : FetchResolve(p, status)
    \/ \E p \in Procs : FetchReject(p)
    \/ \E p \in Procs : TextReject(p)
    \/ \E p \in Procs, rawText \in Payloads : TextResolve(p, rawText)
    \/ Tick

PureIdle ==
    /\ pStations = <<>>
    /\ pProblematic = <<>>
    /\ pMock = <<>>
    /\ pPc = "idle"

Init == InitHandler /\ PureIdle

Spec == Init /\ [][Next]_vars

\* ---- the detector and the fallback generator on their own: the stations are
\* drawn at the start, then the two functions are applied in the handler's order
FieldsOf(fields, t, e, n) ==
    [k \in fields |-> CASE k = "temperature" -> t [] k = "emissions" -> e [] OTHER -> n]

PureStations ==
    {Station(name, "A", FALSE, NoFields) : name \in {"S1", "S2"}}
    \cup {Station(name, "A", TRUE, FieldsOf(fields, t, e, n)) :
            name \in {"S1", "S2"},
            fields \in {{"temperature", "emissions", "noise"}, {"emissions", "noise"}},
            t \in {30, 35}, e \in {150, 151}, n \in {85, 90}}

InitPure ==
    /\ cache = NullCache
    /\ apiBusy = FALSE
    /\ apiKey = FALSE
    /\ now = 0
    /\ inv = [p \in Procs |-> Idle]
    /\ last = NoResponse
    /\ pStations \in SeqsUpTo(PureStations, MaxPureStations)
    /\ pProblematic = <<>>
    /\ pMock = <<>>
    /\ pPc = "input"

\* lines 36-42
Detect ==
    /\ pPc = "input"
    /\ pProblematic' = problematicStations(pStations)
    /\ pPc' = "detected"
    /\ UNCHANGED <<pStations, pMock>>
    /\ UNCHANGED handlerVars

\* lines 80-111
Fallback ==
    /\ pPc = "detected"
    /\ pMock' = mockSuggestions(pProblematic)
    /\ pPc' = "done"
    /\ UNCHANGED <<pStations, pProblematic>>
    /\ UNCHANGED handlerVars

NextPure == Detect \/ Fallback

SpecPure == InitPure /\ [][NextPure]_vars

\* ======================= claims =======================

\* what the claims call a violation, in the claims' own numbers
Has(s, k) == s.hasReading /\ k \in DOMAIN s.latestReading
Over(s, k, limit) == Has(s, k) /\ s.latestReading[k] > limit
Violating(s) ==
    Over(s, "temperature", 30) \/ Over(s, "emissions", 150) \/ Over(s, "noise", 85)
ViolatingAt(stations) == {i \in 1..Len(stations) : Violating(stations[i])}
\* the index in stations of the k-th violating station
KthViolating(stations, k) ==
    CHOOSE i \in ViolatingAt(stations) :
        Cardinality({j \in ViolatingAt(stations) : j <= i}) = k

\* the record the claims expect of the fallback for violating station s
FirstMatch(s) ==
    IF Over(s, "temperature", 30) THEN "temperature"
    ELSE IF Over(s, "emissions", 150) THEN "emissions" ELSE "noise"
ExpectedRecord(s) ==
    [stationName |-> s.name, area |-> s.area,
     parameter |-> CASE FirstMatch(s) = "temperature" -> "Temperature"
                     [] FirstMatch(s) = "emissions" -> "PM 2.5 Emissions"
                     [] OTHER -> "Noise",
     value |-> s.latestReading[FirstMatch(s)],
     threshold |-> CASE FirstMatch(s) = "temperature" -> 30
                     [] FirstMatch(s) = "emissions" -> 150
                     [] OTHER -> 85,
     suggestion |-> CASE FirstMatch(s) = "temperature" ->
                            "Deploy cooling systems or improve ventilation."
                      [] FirstMatch(s) = "emissions" ->
                            "Implement carbon capture or reduce operational hours."
                      [] OTHER ->
                            "Install noise barriers or schedule loud activities off-peak."]

\* C9: the fallback holds one record per violating station, in order, and the
\* record is the one of the first parameter over its threshold in the order
\* temperature, emissions, noise, with that parameter's observed value, its
\* threshold and its fixed text; a station with temperature 35 and noise 90
\* gets the Temperature record, value 35, threshold 30, and no Noise record.
C9_FallbackFirstMatch ==
    pPc = "done" =>
        /\ Len(pMock) = Cardinality(ViolatingAt(pStations))
        /\ \A k \in 1..Len(pMock) :
              LET s == pStations[KthViolating(pStations, k)] IN
              /\ pMock[k] = ExpectedRecord(s)
              /\ (Over(s, "temperature", 34) /\ Over(s, "noise", 89)
                    /\ s.latestReading["temperature"] = 35) =>
                    /\ pMock[k].parameter = "Temperature"
                    /\ pMock[k].value = 35
                    /\ pMock[k].threshold = 30

C9_Witness ==
    /\ pPc = "done"
    /\ Len(pStations) = 2
    /\ Has(pStations[1], "temperature") /\ pStations[1].latestReading["temperature"] = 35
    /\ pStations[1].latestReading["noise"] = 90
    /\ ~Over(pStations[2], "temperature", 30) /\ Over(pStations[2], "emissions", 150)
    /\ Over(pStations[2], "noise", 85)
    /\ Len(pMock) = 2
    /\ pMock[1].parameter = "Temperature"
    /\ pMock[2].parameter = "PM 2.5 Emissions"

\* C10: the detector returns the stations of the input that have a reading
\* with temperature > 30, emissions > 150 or noise > 85, in input order and
\* nothing else; a value equal to its threshold does not count and a station
\* without a reading is left out.
C10_DetectorExact ==
    pPc \in {"detected", "done"} =>
        /\ Len(pProblematic) = Cardinality(ViolatingAt(pStations))
        /\ \A k \in 1..Len(pProblematic) :
              pProblematic[k] = pStations[KthViolating(pStations, k)]

C10_Witness ==
    /\ pPc = "detected"
    /\ Len(pStations) = 2
    /\ pStations[1].hasReading
    /\ pStations[1].latestReading = Reading(30, 150, 85)
    /\ pStations[2].hasReading /\ pStations[2].latestReading["noise"] = 90
    /\ pProblematic = <<pStations[2]>>

C10_WitnessNoReading ==
    /\ pPc = "detected"
    /\ Len(pStations) = 2
    /\ ~pStations[1].hasReading
    /\ pProblematic = <<pStations[2]>>

\* ---- the handler's claims
IsValid(req) == req.method = "POST" /\ req.body = "array"
HasViolation(req) == IsValid(req) /\ ViolatingAt(req.stations) # {}
NoViolation(req) == IsValid(req) /\ ViolatingAt(req.stations) = {}
ExpectedFallback(stations) ==
    [k \in 1..Cardinality(ViolatingAt(stations)) |->
        ExpectedRecord(stations[KthViolating(stations, k)])]
InFlight(p) == inv[p].pc \in {"fetch", "text"}
Answered == last.path # 0
SuggestionFields ==
    {"stationName", "area", "parameter", "value", "threshold", "suggestion"}
IsSuggestionList(body) ==
    /\ body.type = "array"
    /\ \A i \in 1..Len(body.items) : DOMAIN body.items[i] = SuggestionFields

\* a step in which a request arrived: time stood still, no invocation waiting
\* for the provider moved, and an answer was sent or an invocation began
CallStep ==
    /\ now' = now
    /\ \A q \in Procs : InFlight(q) => inv'[q] = inv[q]
    /\ last' # last \/ inv' # inv
Began == inv' # inv
\* the request of that step
CalledReq ==
    IF Began THEN inv'[CHOOSE q \in Procs : inv'[q] # inv[q]].req ELSE last'.req

\* C1: at most one invocation is past the apiBusy test with its provider call
\* outstanding, and while one is, the flag is set.
C1_SingleFlight ==
    /\ \A p, q \in Procs : InFlight(p) /\ InFlight(q) => p = q
    /\ \A p \in Procs : InFlight(p) => apiBusy

\* one invocation waits for the provider and another was turned away at line 123
C1_Witness ==
    /\ \E p \in Procs : inv[p].pc = "text"
    /\ apiBusy
    /\ last.path = 123

\* C2: a call with violating input, a credential and no cache entry that
\* arrives while another invocation's provider call is outstanding sends no
\* provider request and does not wait: in the same step it is answered 200
\* with the fallback of its own input, and the outstanding calls stay one.
C2_SecondCallFallsBack ==
    [][(/\ CallStep
        /\ HasViolation(CalledReq)
        /\ apiKey
        /\ ~cache.present
        /\ \E q \in Procs : InFlight(q))
       => /\ ~Began
          /\ Cardinality({q \in Procs : InFlight(q)}) = 1
          /\ \A q \in Procs : InFlight(q) => inv[q].fetches = 1
          /\ last'.status = 200
          /\ last'.fetches = 0
          /\ last'.body = Arr(ExpectedFallback(CalledReq.stations))]_vars

C2_Witness ==
    /\ \E p \in Procs : inv[p].pc = "fetch"
    /\ Cardinality({q \in Procs : InFlight(q)}) = 1
    /\ apiKey
    /\ ~cache.present
    /\ last.path = 123
    /\ HasViolation(last.req)
    /\ last.fetches = 0
    /\ last.body = Arr(ExpectedFallback(last.req.stations))

\* C3 (as claimed): a call whose input has no violating station is answered
\* [] whatever the cache holds, without a provider request and without its
\* answer coming from the cache.
C3_NoViolationEmpty ==
    (Answered /\ NoViolation(last.req)) =>
        /\ last.body = Arr(<<>>)
        /\ last.fetches = 0
        /\ last.path # 33

Expired == cache.present /\ now - cache.time >= TTL

\* C5 (as claimed): a call with violating input made after the Cache Entry
\* expired is never answered the expired entry's stored suggestions, whether
\* or not another invocation holds the lock.
C5_ExpiredNeverReplayed ==
    [][(CallStep /\ HasViolation(CalledReq) /\ Expired)
       => (Began \/ last'.path \notin {33, 122})]_vars

\* C5 (amended): a call with violating input made after the Cache Entry
\* expired while no invocation holds the lock re-evaluates: it is not
\* answered from the cache and it sends a new provider request; one made
\* while another invocation holds the lock is answered the expired entry's
\* stored suggestions (line 122) and sends none.
C5_ExpiredReevaluatesUnlessBusy ==
    [][(CallStep /\ HasViolation(CalledReq) /\ Expired)
       => IF apiBusy
          THEN /\ ~Began
               /\ last'.path = 122
               /\ last'.body = cache.data
               /\ last'.fetches = 0
          ELSE /\ Began
               /\ last' = last
               /\ \E p \in Procs :
                     /\ ~InFlight(p)
                     /\ inv'[p].pc = "fetch"
                     /\ inv'[p].fetches = 1
               /\ apiBusy']_vars

\* the entry has expired, an invocation made since is asking the provider and
\* a call made meanwhile was answered the expired entry
C5_Witness ==
    /\ Expired
    /\ \E p \in Procs : inv[p].pc = "fetch" /\ HasViolation(inv[p].req)
    /\ last.path = 122
    /\ HasViolation(last.req)
    /\ last.body = cache.data

\* C6: with no credential a call with violating input is answered 200 with
\* exactly the fallback of its own input's violating stations, and no provider
\* request is made for it.
C6_NoCredentialFallback ==
    /\ (Answered /\ ~apiKey /\ HasViolation(last.req)) =>
          /\ last.status = 200
          /\ last.body = Arr(ExpectedFallback(last.req.stations))
          /\ last.fetches = 0
          /\ last.upstream = NoUpstream
    /\ ~apiKey => \A p \in Procs : ~InFlight(p)

C6_Witness ==
    /\ ~apiKey
    /\ HasViolation(last.req)
    /\ last.path = 116
    /\ Len(last.body.items) = 1
    /\ last.body.items[1].parameter = "Temperature"
    /\ last.body.items[1].value = 35

\* C7 (as claimed): every call with a valid request is answered 200 with a list
\* of Suggestion records, possibly empty.
C7_AlwaysSuggestionList ==
    (Answered /\ IsValid(last.req)) =>
        /\ last.status = 200
        /\ IsSuggestionList(last.body)

\* the provider's part in the answer failed: transport error, failure reading
\* the body, non-success status, or a text neither parser accepts
ProviderFailed(u) ==
    \/ u.kind \in {"fetchError", "textError"}
    \/ u.kind = "response" /\ (u.status < 200 \/ u.status > 299)
    \/ u.kind = "response" /\ ~JSONparse(u.rawText).ok /\ ~JSON5parse(u.rawText).ok

\* C8: an invocation that sent the provider request and whose request failed
\* (transport error, non-success status such as 429, or a text that neither
\* parse accepts, such as: not json) answers 200 with exactly the fallback of
\* its own input's violating stations.
C8_FailureGivesFallback ==
    (Answered /\ last.fetches > 0 /\ ProviderFailed(last.upstream)) =>
        /\ last.status = 200
        /\ last.body = Arr(ExpectedFallback(last.req.stations))
        /\ last.body.items # <<>>

C8_Witness ==
    /\ last.fetches = 1
    /\ last.upstream = Upstream("response", 200, <<"not", "json">>)
    /\ last.body = Arr(ExpectedFallback(last.req.stations))
    /\ last.body.items # <<>>

C8_WitnessRateLimited ==
    /\ last.fetches = 1
    /\ last.upstream.status = 429
    /\ last.path = 157
    /\ last.body = Arr(ExpectedFallback(last.req.stations))

\* C11: whenever an invocation that held the lock returns, by whichever exit
\* (non-success status at 157, the return at 176 after either parse or after
\* both failed, the catch at 179), the flag is clear in the state it leaves
\* and no invocation is left in flight, so the next call passes the test of
\* line 120.
C11_ReleasedOnEveryExit ==
    [][\A p \in Procs :
          (InFlight(p) /\ ~InFlight(p)')
          => /\ ~apiBusy'
             /\ \A q \in Procs : ~InFlight(q)'
             /\ last'.path \in {157, 176, 179}
             /\ last'.req = inv[p].req
             /\ ~LockHeld(apiBusy')]_vars

\* an invocation left through the catch and a later one holds the lock
C11_Witness ==
    /\ last.path = 179
    /\ last.upstream.kind = "textError"
    /\ apiBusy
    /\ \E p \in Procs : inv[p].pc = "fetch"

\* C12 (as claimed): the Cache Entry changes only in a step that answers at
\* line 176 with a payload one of the two parses accepted, and then to that
\* parsed result with the current time; an invocation that ends in the fallback
\* leaves it as it was.
C12_CacheOnlyOnParsedSuccess ==
    [][cache' # cache
       => /\ last'.path = 176
          /\ Ok(last'.upstream.status)
          /\ last'.stage \in {"strict", "relaxed"}
          /\ JSONparse(last'.upstream.rawText).ok \/ JSON5parse(last'.upstream.rawText).ok
          /\ cache' = CacheOf(now, last'.body)]_vars

\* ---- liveness.  The code sets no timer and passes no abort signal to fetch
\* (lines 129-146): the steps that end an outstanding call are the provider's,
\* and nothing obliges the provider to take them.  What the runtime guarantees
\* is that time passes.
SpecLive == Init /\ [][Next]_vars /\ WF_vars(Tick)

\* C13 (as claimed): whenever the lock is held it is eventually released, also
\* when the provider never responds.
C13_LockEventuallyReleased == apiBusy ~> ~apiBusy

\* C14: an invocation sends the provider at most one request; when the answer
\* is a non-success status (429 among them) or the call fails otherwise, the
\* invocation sends no other: in that same step it returns, answering the
\* fallback, and it is no longer in flight.
C14_NoRetry ==
    [][/\ \A p \in Procs : inv[p].fetches <= 1 /\ inv'[p].fetches <= 1
       /\ last'.fetches <= 1
       /\ \A p \in Procs :
            (inv[p].pc = "text" /\ ~Ok(inv[p].status) /\ inv'[p] # inv[p])
            => /\ inv'[p] = Idle
               /\ last'.path \in {157, 179}
               /\ last'.path = 157 => last'.upstream.status = inv[p].status
               /\ last'.fetches = 1
               /\ last'.body = Arr(inv[p].mock)
       /\ \A p \in Procs :
            (InFlight(p) /\ inv'[p].pc = "fetch") => inv'[p] = inv[p]]_vars

\* a rate-limited invocation has answered the fallback after its one request
C14_Witness ==
    /\ last.path = 157
    /\ last.upstream.status = 429
    /\ last.fetches = 1
    /\ last.body = Arr(ExpectedFallback(last.req.stations))
    /\ \A p \in Procs : ~InFlight(p)

\* the text without the artifacts the claim names: code-block delimiters and
\* emphasis markers
IsArtifact(tok) == tok \in {"FENCE", "**"}
Stripped(text) == SelectSeq(text, LAMBDA tok : ~IsArtifact(tok))

\* C15 (as claimed): on a successful provider response the answer is what the
\* strict parse, or else the relaxed parse, makes of the text with its
\* artifacts stripped, and the fallback only when both fail on it; a
\* suggestion list wrapped in code-block delimiters is answered as the list.
C15_StrippedThenParsed ==
    (last.path = 176 /\ last.upstream.kind = "response") =>
        LET text == Stripped(last.upstream.rawText) IN
        IF JSONparse(text).ok THEN last.body = JSONparse(text).value
        ELSE IF JSON5parse(text).ok THEN last.body = JSON5parse(text).value
        ELSE last.body = Arr(ExpectedFallback(last.req.stations))

\* the invocations between taking the flag (126) and their completion
Outstanding == {p \in Procs : InFlight(p)}
\* the returns taken before line 126: wrong method, missing or malformed list,
\* cache hit, nothing detected, no credential, contention
EarlyReturns == {26, 28, 29, 33, 44, 116, 122, 123}

\* C16: apiBusy is set exactly while one invocation is between line 126 and its
\* completion; a call that returns early (405, 400, cache hit, nothing
\* detected, no credential, contention) leaves the flag as it found it, and the
\* flag changes only when an invocation begins its provider call or ends it.
C16_BusyIffOneOutstanding ==
    [][/\ apiBusy <=> Cardinality(Outstanding) = 1
       /\ apiBusy' <=> Cardinality(Outstanding') = 1
       /\ (CallStep /\ ~Began)
          => /\ last'.path \in EarlyReturns
             /\ apiBusy' = apiBusy
       /\ (apiBusy' # apiBusy)
          => \/ CallStep /\ Began /\ ~apiBusy /\ apiBusy'
             \/ \E p \in Procs : InFlight(p) /\ ~InFlight(p)' /\ apiBusy /\ ~apiBusy']_vars

\* while an invocation waits for the provider, another was answered early with
\* nothing detected, and the flag is still set
C16_Witness ==
    /\ \E p \in Procs : inv[p].pc = "text" /\ Ok(inv[p].status)
    /\ apiBusy
    /\ last.path = 44
    /\ last.fetches = 0

====
